---- MODULE Spec2Model ----
(***************************************************************************)
(* Model of the iOS Anti-Revoke profile pipeline (src/main.py and          *)
(* src/utils/*.py): scraping, decoding, domain extraction, merging,        *)
(* profile creation, certificate-chain splitting and signing.              *)
(*                                                                         *)
(* The specifications share the module's variables:                        *)
(*   SpecExtract    CryptoHandler.extract_domains over bounded plist trees *)
(*   SpecSplit      CryptoHandler.split_certificate_chain over blobs       *)
(*   SpecRoundTrip  create_profile, parse_plist, extract_domains in turn   *)
(*   SpecMerge      process_profiles and merge_domains as a function       *)
(*   SpecRules      RuleFileGenerator.generate_all_rules                   *)
(*   SpecFetch      ProfileScraper.scrape_sources, request by request      *)
(*   Spec           AntiRevokeOrchestrator.run, one run of the pipeline    *)
(*   SpecRerun      run called again on the same orchestrator              *)
(* A specification leaves the variables of the others at their idle value. *)
(***************************************************************************)
EXTENDS Integers, Sequences, FiniteSets, TLC

VARIABLES
    \* ---- SpecExtract
    plist_data,         \* the parsed plist handed to extract_domains
    x_pc,               \* "idle" | "call" | "returned" | "raised"
    x_domains,          \* the list extract_domains returned
    \* ---- SpecSplit
    fullchain,          \* the lines of the certificate blob
    s_exists,           \* whether the blob's file exists
    s_pc,               \* "idle" | "call" | "returned"
    s_result,           \* what split_certificate_chain returned
    \* ---- Spec: AntiRevokeOrchestrator and its CryptoHandler
    cert_path,          \* self.cert_path: "None" or the path
    key_path,           \* self.key_path: "None" or the path
    pc,                 \* where run() stands
    src_i,              \* scrape_sources: index of the next source
    profiles,           \* the dict scrape_sources fills, in insertion order
    proc_i,             \* process_profiles: index of the next profile
    all_domains,        \* self.all_domains
    processing_results, \* self.processing_results: {name, domains_count}
    merged_domains,     \* run's merged_domains
    plist_file,         \* "None" or the unsigned plist create_profile wrote
    server_cert_path,   \* CryptoHandler.server_cert_path
    chain_cert_path,    \* CryptoHandler.chain_cert_path
    files,              \* the temporary and output files that exist
    profile_path,       \* what generate_profile returned
    generated_files,    \* what generate_rules returned (the format names)
    run_result,         \* what run() returned, once pc = "done"
    pipeline_error,     \* the step whose exception run()'s except caught
    \* ---- history of the run, read by the properties only
    extracted_all,      \* every element extract_domains returned so far
    clean_yield,        \* some source gave a non-empty list of strings only
    merge_state,        \* "not_called" | "returned" | "raised"
    sign_log,           \* the call of sign_profile: its inputs and outcome
    blob_seen,          \* the certificate blob sign_profile read
    run_no,             \* how many times run() was called on the orchestrator
    \* ---- SpecRoundTrip: create_profile, parse_plist, extract_domains
    rt_domains,         \* the domain list handed to create_profile
    rt_pc,              \* "idle" | "create" | "parse" | "extract" | "done" | "failed"
    rt_profile,         \* the payload create_profile wrote, parsed back
    rt_extracted,       \* what extract_domains returned for it
    \* ---- SpecMerge: process_profiles and merge_domains as a function
    m_lists,            \* the per-source domain lists, in processing order
    m_pc,               \* "idle" | "call" | "returned"
    m_out,              \* the merged lists the orders and repetitions gave
    \* ---- SpecRules: RuleFileGenerator.generate_all_rules
    r_domains,          \* its argument `domains`
    r_failing,          \* the formats whose file cannot be written
    r_pc,               \* "idle" | "call" | "returned"
    r_generated,        \* the keys of the dict it returned
    r_files,            \* the rule file of each format, as written
    \* ---- SpecFetch: ProfileScraper.scrape_sources, request by request
    f_src,              \* index of the source being scraped
    f_pc,               \* "idle" | "fetch_page" | "download_profile" | "done"
    f_attempt,          \* the loop variable `attempt`
    f_responses,        \* the outcomes of the requests of the current loop
    f_profiles,         \* the names stored in `profiles`
    f_log               \* the retry loops that ended: source, call, tries, ok

(***************************************************************************)
(* Bounds of the model.                                                    *)
(***************************************************************************)
\* longest SupplementalMatchDomains list of a plist tree
MaxElems == 2
\* most entries of a PayloadContent list
MaxEntries == 2
\* most lines of a certificate blob handed to split_certificate_chain
MaxLines == 6
\* longest domain list of a profile scraped during a run
MaxDomains == 2
\* most lines of the certificate blob read while a run signs
MaxSignLines == 4
\* most rule formats whose write fails during a run
MaxWriteFailures == 1

(***************************************************************************)
(* Plist values.  plistlib yields strings, numbers/booleans, lists and     *)
(* dicts; a value is a record tagged with its Python type.                 *)
(***************************************************************************)
Str(s) == [t |-> "str", v |-> s]
Num(n) == [t |-> "num", v |-> n]
Dict(n) == [t |-> "map", v |-> n]

\* isinstance(x, str) / isinstance(x, list) / isinstance(x, dict)
IsStr(x) == x.t = "str"
IsList(x) == x.t = "list"
IsDict(x) == x.t = "map"

\* Elements a SupplementalMatchDomains list may hold.
DomainStrings == {"a.com", "b.com", " "}
Elems == {Str(s) : s \in DomainStrings} \cup {Num("7"), Dict("{}")}
\* The elements used when whole plist trees are enumerated.
TreeElems == {Str("a.com"), Str(" "), Num("7"), Dict("{}")}

SeqsUpTo(S, n) == UNION {[1..k -> S] : k \in 0..n}

\* The value under 'SupplementalMatchDomains': missing, a list, or a string.
MatchDomainsNodes(E, n) ==
    {[t |-> "absent", items |-> <<>>], [t |-> "str", items |-> <<>>]}
        \cup {[t |-> "list", items |-> l] : l \in SeqsUpTo(E, n)}
AbsentMatchDomains == [t |-> "absent", items |-> <<>>]

\* The value under 'DNSSettings': missing, a dict, or a string.
DNSSettingsNodes(E, n) ==
    {[t |-> "absent", SupplementalMatchDomains |-> AbsentMatchDomains],
     [t |-> "str", SupplementalMatchDomains |-> AbsentMatchDomains]}
        \cup {[t |-> "map", SupplementalMatchDomains |-> m] : m \in MatchDomainsNodes(E, n)}
AbsentDNSSettings == [t |-> "absent", SupplementalMatchDomains |-> AbsentMatchDomains]

\* An entry of PayloadContent: a dict, or a string.
PayloadEntries(E, n) ==
    {[t |-> "str", DNSSettings |-> AbsentDNSSettings]}
        \cup {[t |-> "map", DNSSettings |-> d] : d \in DNSSettingsNodes(E, n)}

\* The value under 'PayloadContent': missing, a list of entries, or a dict.
PayloadContentNodes(E, n, k) ==
    {[t |-> "absent", items |-> <<>>], [t |-> "map", items |-> <<>>]}
        \cup {[t |-> "list", items |-> l] : l \in SeqsUpTo(PayloadEntries(E, n), k)}

\* The root of a parsed plist: a dict, or (a plist may hold any root) a list.
Plists(E, n, k) ==
    {[t |-> "list", PayloadContent |-> [t |-> "absent", items |-> <<>>]]}
        \cup {[t |-> "map", PayloadContent |-> c] : c \in PayloadContentNodes(E, n, k)}

(***************************************************************************)
(* CryptoHandler.extract_domains (crypto_handler.py 207-236).              *)
(***************************************************************************)
\* d.get(key, default) on a field that may be missing
DictGet(field, default) == IF field.t = "absent" THEN default ELSE field

\* lines 224-229: what one PayloadContent entry appends to `domains`
MutEntryDomainsNoListCheck(payload) ==
    IF IsDict(payload)
    THEN LET dns_settings == DictGet(payload.DNSSettings, [t |-> "map", SupplementalMatchDomains |-> AbsentMatchDomains])
         IN  IF IsDict(dns_settings)
             THEN LET match_domains == DictGet(dns_settings.SupplementalMatchDomains, [t |-> "list", items |-> <<>>])
                  IN  IF IsList(match_domains) THEN match_domains.items
                      ELSE <<Str("a.com")>>   \* extend() over a non-list
             ELSE <<>>
    ELSE <<>>
EntryDomains(payload) ==
    IF IsDict(payload)
    THEN LET dns_settings == DictGet(payload.DNSSettings, [t |-> "map", SupplementalMatchDomains |-> AbsentMatchDomains])
         IN  IF IsDict(dns_settings)
             THEN LET match_domains == DictGet(dns_settings.SupplementalMatchDomains, [t |-> "list", items |-> <<>>])
                  IN  IF IsList(match_domains) THEN match_domains.items ELSE <<>>
             ELSE <<>>
    ELSE <<>>

\* lines 223-229: the loop over payload_content
RECURSIVE ExtendAll(_, _)
ExtendAll(entries, i) ==
    IF i > Len(entries) THEN <<>>
    ELSE EntryDomains(entries[i]) \o ExtendAll(entries, i + 1)

\* lines 220-232, the body of the try: plist_data.get raises AttributeError
\* when the root is no dict
ExtractBody(plist) ==
    IF ~IsDict(plist) THEN [exc |-> TRUE, domains |-> <<>>]
    ELSE LET payload_content == DictGet(plist.PayloadContent, [t |-> "list", items |-> <<>>])
         IN  [exc |-> FALSE,
              domains |-> IF IsList(payload_content)
                          THEN ExtendAll(payload_content.items, 1)
                          ELSE <<>>]

\* an extract_domains without its try/except
MutExtractNoExcept(plist) ==
    LET body == ExtractBody(plist)
    IN  [raised |-> body.exc, domains |-> body.domains]

\* lines 219-236: the try/except around the body; raised says whether an
\* exception leaves the function
extract_domains(plist) ==
    LET body == ExtractBody(plist)
    IN  IF body.exc THEN [raised |-> FALSE, domains |-> <<>>]
        ELSE [raised |-> FALSE, domains |-> body.domains]

(***************************************************************************)
(* CryptoHandler.split_certificate_chain (crypto_handler.py 125-205).      *)
(* A blob is the sequence of its lines (content.splitlines()); a block is  *)
(* the sequence of the lines '\n'.join() glues together.                   *)
(***************************************************************************)
BeginLine == "-----BEGIN CERTIFICATE-----"
EndLine == "-----END CERTIFICATE-----"
\* the lines a blob is made of: the two markers and two lines of other text
Lines == {BeginLine, EndLine, "MIIB", "MIIC"}
Blobs(n) == SeqsUpTo(Lines, n)
\* the blobs a run's certificate file may hold
SignBlobs == SeqsUpTo({BeginLine, EndLine, "MIIB"}, MaxSignLines)

\* '-----BEGIN CERTIFICATE-----' in line / '-----END CERTIFICATE-----' in line
HasBegin(line) == line = BeginLine
HasEnd(line) == line = EndLine

\* lines 152-162: the scan, from line i on, in the state st of
\* (cert_blocks, current_block, in_cert)
RECURSIVE ScanLines(_, _, _)
ScanLines(lines, i, st) ==
    IF i > Len(lines) THEN st
    ELSE LET line == lines[i]
         IN  IF HasBegin(line)
             THEN ScanLines(lines, i + 1,
                      [st EXCEPT !.in_cert = TRUE, !.current_block = <<line>>])
             ELSE IF HasEnd(line)
             THEN ScanLines(lines, i + 1,
                      [cert_blocks |-> Append(st.cert_blocks, Append(st.current_block, line)),
                       current_block |-> <<>>,
                       in_cert |-> FALSE])
             ELSE IF st.in_cert
             THEN ScanLines(lines, i + 1,
                      [st EXCEPT !.current_block = Append(st.current_block, line)])
             ELSE ScanLines(lines, i + 1, st)

\* lines 148-162
CertBlocks(lines) ==
    ScanLines(lines, 1, [cert_blocks |-> <<>>, current_block |-> <<>>, in_cert |-> FALSE]).cert_blocks

\* '\n'.join(blocks): the lines of the blocks, one block after the other
RECURSIVE JoinBlocks(_)
JoinBlocks(blocks) ==
    IF blocks = <<>> THEN <<>> ELSE Head(blocks) \o JoinBlocks(Tail(blocks))

\* The function's result: ok is FALSE for (None, None); server_cert and
\* chain_certs are what is written to the two temporary files, has_chain
\* whether the second file is made (chain_cert_path is not None).
SplitFailed == [ok |-> FALSE, cert_blocks |-> <<>>, server_cert |-> <<>>,
                has_chain |-> FALSE, chain_certs |-> <<>>]

\* lines 139-201
split_certificate_chain(exists, lines) ==
    IF ~exists THEN SplitFailed
    ELSE LET cert_blocks == CertBlocks(lines)
         IN  IF cert_blocks = <<>> THEN SplitFailed
             ELSE [ok |-> TRUE,
                   cert_blocks |-> cert_blocks,
                   server_cert |-> cert_blocks[1],
                   has_chain |-> Len(cert_blocks) > 1,
                   chain_certs |-> IF Len(cert_blocks) > 1
                                   THEN JoinBlocks(Tail(cert_blocks))
                                   ELSE <<>>]

(***************************************************************************)
(* ProfileScraper (scraper.py): bounded retries.                           *)
(***************************************************************************)
\* scraper.py 24: max_retries
max_retries == 3

\* scraper.py 49-60 and 97-108: the loop `for attempt in range(max_retries)`;
\* attempts[k] says whether the k-th request succeeds
RECURSIVE RetryLoop(_, _)
RetryLoop(attempts, attempt) ==
    IF attempt >= max_retries THEN [ok |-> FALSE, tries |-> attempt]
    ELSE IF attempts[attempt + 1] THEN [ok |-> TRUE, tries |-> attempt + 1]
    ELSE IF attempt = max_retries - 1 THEN [ok |-> FALSE, tries |-> attempt + 1]
    ELSE RetryLoop(attempts, attempt + 1)
fetch_page(attempts) == RetryLoop(attempts, 0)
download_profile(attempts) == RetryLoop(attempts, 0)
Attempts == [1..max_retries -> BOOLEAN]

\* main.py 294-305: the sources main() hands to run()
SourceNames == <<"khoindvn", "applejr">>

(***************************************************************************)
(* What a downloaded container may hold: cms says whether openssl can      *)
(* unwrap it (decrypt_profile), parse what plistlib.load makes of the      *)
(* payload (parse_plist): an error, an empty (falsy) root, or a plist.     *)
(***************************************************************************)
IdlePlist == [t |-> "list", PayloadContent |-> [t |-> "absent", items |-> <<>>]]

\* a plist with one DNS-settings entry holding the list l
DnsPlist(l) ==
    [t |-> "map",
     PayloadContent |->
        [t |-> "list",
         items |-> <<[t |-> "map",
                      DNSSettings |->
                         [t |-> "map",
                          SupplementalMatchDomains |-> [t |-> "list", items |-> l]]]>>]]
RunPlists == {DnsPlist(l) : l \in SeqsUpTo(Elems, MaxDomains)} \cup {IdlePlist}
ProfileContents ==
    {[cms |-> FALSE, parse |-> "error", plist |-> IdlePlist],
     [cms |-> TRUE, parse |-> "error", plist |-> IdlePlist],
     [cms |-> TRUE, parse |-> "empty", plist |-> IdlePlist]}
        \cup {[cms |-> TRUE, parse |-> "ok", plist |-> p] : p \in RunPlists}

(***************************************************************************)
(* AntiRevokeOrchestrator.process_profiles and merge_domains (main.py).    *)
(***************************************************************************)
\* main.py 115: set.update(list) adds the elements one by one and raises
\* TypeError at the first unhashable one (a dict), keeping what it added
\* an update that replaces the set by the list's elements
MutSetUpdateReplaces(set, list, i) ==
    [raised |-> \E j \in DOMAIN list : IsDict(list[j]),
     set |-> {e \in {list[j] : j \in DOMAIN list} : ~IsDict(e)}]
RECURSIVE SetUpdate(_, _, _)
SetUpdate(set, list, i) ==
    IF i > Len(list) THEN [raised |-> FALSE, set |-> set]
    ELSE IF IsDict(list[i]) THEN [raised |-> TRUE, set |-> set]
    ELSE SetUpdate(set \cup {list[i]}, list, i + 1)

\* code-point order of the values the model uses
CodePointOrder == <<" ", " a.com", "7", "a.com", "a.com\n", "a.com\r",
                    "a.example.com", "b.com", "b.example.com", "c.example.com">>
Rank(v) == CHOOSE i \in DOMAIN CodePointOrder : CodePointOrder[i] = v
\* x < y of two values of one type
Less(x, y) == Rank(x.v) < Rank(y.v)

\* sorted(list(S)) of values of one type
RECURSIVE SortedList(_)
SortedList(S) ==
    IF S = {} THEN <<>>
    ELSE LET m == CHOOSE x \in S : \A y \in S : ~Less(y, x)
         IN  <<m>> \o SortedList(S \ {m})

\* main.py 136: sorted() raises TypeError when it compares a str with a number
MutMergeUnsorted(domains) ==
    IF \E x, y \in domains : x.t # y.t
    THEN [raised |-> TRUE, list |-> <<>>]
    ELSE [raised |-> FALSE,
          list |-> LET l == SortedList(domains)
                   IN  [i \in DOMAIN l |-> l[Len(l) + 1 - i]]]
\* a merge that loses the least domain
MutMergeDropsLeast(domains) ==
    IF \E x, y \in domains : x.t # y.t
    THEN [raised |-> TRUE, list |-> <<>>]
    ELSE [raised |-> FALSE,
          list |-> IF domains = {} THEN <<>> ELSE Tail(SortedList(domains))]
merge_domains(domains) ==
    IF \E x, y \in domains : x.t # y.t
    THEN [raised |-> TRUE, list |-> <<>>]
    ELSE [raised |-> FALSE, list |-> SortedList(domains)]

\* main.py 91-119: self.all_domains after the profiles whose domain lists
\* are lists[k..] were processed, starting from `set`; a list whose update
\* raises is left at the except clause (121-123)
RECURSIVE ProcessAll(_, _, _)
ProcessAll(set, lists, k) ==
    IF k > Len(lists) THEN set
    ELSE ProcessAll(SetUpdate(set, lists[k], 1).set, lists, k + 1)

\* process_profiles on a fresh orchestrator, then merge_domains
MergeOf(lists) == merge_domains(ProcessAll({}, lists, 1))

(***************************************************************************)
(* CryptoHandler.sign_profile (crypto_handler.py 312-408).                 *)
(***************************************************************************)
\* the files of a run
CertFile == "fullchain.pem"
KeyFile == "privkey.pem"
TmpPlist == "tmp.plist"
TmpServer == "tmp_server.pem"
TmpChain == "tmp_chain.pem"
SignedOut == "RevokeGuard_Auto-Sync.mobileconfig"
UnsignedOut == "RevokeGuard_Auto-Sync.plist"
MetadataFile == "metadata.json"

\* What `openssl smime -sign` may do: write the signed file, end with status
\* 0 without writing it, end with another status (CalledProcessError), or
\* not start at all (OSError).
OpensslOutcomes == {"signed", "no_output", "CalledProcessError", "OSError"}

NoSignLog ==
    [called |-> FALSE, guard |-> "n/a", split_ok |-> FALSE, invoked |-> FALSE,
     signer |-> "None", inkey |-> "None", certfile |-> "None", ret |-> "None"]

\* lines 324-338: a guard fails, nothing else happens
SignRefused(scp, ccp, fs, guard) ==
    [ret |-> "None", server_cert_path |-> scp, chain_cert_path |-> ccp, files |-> fs,
     log |-> [NoSignLog EXCEPT !.called = TRUE, !.guard = guard]]

\* lines 345-408, once the guards have passed.  scp and ccp are
\* self.server_cert_path and self.chain_cert_path before the call.
SignWithChain(cp, kp, scp, ccp, fs, blob, openssl) ==
    LET sp == split_certificate_chain(TRUE, blob)
        \* lines 349-355
        server_cert == IF sp.ok THEN TmpServer ELSE cp
        chain_cert == IF sp.ok /\ sp.has_chain THEN TmpChain ELSE "None"
        scp2 == IF sp.ok THEN server_cert ELSE scp
        ccp2 == IF sp.ok THEN chain_cert ELSE ccp
        made == (IF sp.ok THEN {TmpServer} ELSE {})
                    \cup (IF sp.ok /\ sp.has_chain THEN {TmpChain} ELSE {})
        \* line 378
        written == IF openssl = "signed" THEN {SignedOut} ELSE {}
        fs2 == fs \cup made \cup written
        \* line 380
        success == openssl \in {"signed", "no_output"} /\ SignedOut \in fs2
        \* lines 384-396
        cleaned == (IF scp2 # "None" /\ scp2 # cp THEN {scp2} ELSE {})
                       \cup (IF ccp2 # "None" THEN {ccp2} ELSE {})
    IN  [ret |-> IF success THEN SignedOut ELSE "None",
         server_cert_path |-> scp2,
         chain_cert_path |-> ccp2,
         files |-> IF success THEN fs2 \ cleaned ELSE fs2,
         log |-> [called |-> TRUE, guard |-> "passed", split_ok |-> sp.ok,
                  invoked |-> TRUE, signer |-> server_cert, inkey |-> kp,
                  certfile |-> chain_cert,
                  ret |-> IF success THEN SignedOut ELSE "None"]]

\* lines 324-408
\* a sign_profile that gives up when the chain cannot be split
MutSignAbortsOnSplitFailure(cp, kp, scp, ccp, fs, plist, cert_exists, key_exists, blob, openssl) ==
    IF cp = "None" \/ kp = "None" THEN SignRefused(scp, ccp, fs, "not_configured")
    ELSE IF plist \notin fs THEN SignRefused(scp, ccp, fs, "plist_missing")
    ELSE IF ~cert_exists THEN SignRefused(scp, ccp, fs, "cert_missing")
    ELSE IF ~key_exists THEN SignRefused(scp, ccp, fs, "key_missing")
    ELSE IF ~split_certificate_chain(TRUE, blob).ok THEN SignRefused(scp, ccp, fs, "passed")
    ELSE SignWithChain(cp, kp, scp, ccp, fs, blob, openssl)

\* lines 324-408; cert_exists and key_exists are what Path(...).exists()
\* answers for the certificate and the key, blob the certificate's lines
sign_profile(cp, kp, scp, ccp, fs, plist, cert_exists, key_exists, blob, openssl) ==
    IF cp = "None" \/ kp = "None" THEN SignRefused(scp, ccp, fs, "not_configured")
    ELSE IF plist \notin fs THEN SignRefused(scp, ccp, fs, "plist_missing")
    ELSE IF ~cert_exists THEN SignRefused(scp, ccp, fs, "cert_missing")
    ELSE IF ~key_exists THEN SignRefused(scp, ccp, fs, "key_missing")
    ELSE SignWithChain(cp, kp, scp, ccp, fs, blob, openssl)

(***************************************************************************)
(* RuleConverter and RuleFileGenerator (rule_converter.py).  A rule text   *)
(* is the list of lines a generator joins with '\n'; a file is the list of *)
(* the pieces written, each a line's text and whether a newline follows.   *)
(***************************************************************************)
Formats == {"Quantumult X", "Surge", "Loon", "Shadowrocket", "Hosts", "Domain List"}
\* the order of the try blocks of generate_all_rules
FormatOrder == <<"Quantumult X", "Surge", "Loon", "Shadowrocket", "Hosts", "Domain List">>

PROJECT_NAME == "iOS-AntiRevoke-DNS-Rules"
LICENSE_NAME == "MIT License"
\* main.py 263-264: the author and the timestamp run() passes
Author == "RzMY"
UpdatedUtc == "2026-11-03 04:00:00 UTC"

\* str.strip() on the strings of the model
Strip(s) ==
    CASE s \in {"", " "} -> ""
      [] s \in {" a.com", "a.com\r", "a.com\n"} -> "a.com"
      [] OTHER -> s

\* lines 23-43
build_header(comment_prefix, author, updated_utc, domain_count) ==
    <<comment_prefix \o " Project: " \o PROJECT_NAME,
      comment_prefix \o " Author: " \o author,
      comment_prefix \o " Updated: " \o updated_utc,
      comment_prefix \o " Domain Count: " \o ToString(domain_count),
      comment_prefix \o " License: " \o LICENSE_NAME>>

\* lines 60, 84, 108, 132, 163: the comment line after the header
FormatComment(format) ==
    CASE format = "Quantumult X" -> "# Format: host, domain, action"
      [] format \in {"Surge", "Loon", "Shadowrocket"} -> "# Format: DOMAIN,domain,action"
      [] format = "Hosts" -> "# Format: IP domain"
      [] OTHER -> ""

\* lines 65, 89, 113, 137, 168, 271: the line of one stripped domain
\* a rule line without the format's syntax
MutRuleLineBareDomain(format, domain) == domain
RuleLine(format, domain) ==
    CASE format = "Quantumult X" -> "host, " \o domain \o ", reject"
      [] format \in {"Surge", "Loon", "Shadowrocket"} -> "DOMAIN," \o domain \o ",REJECT"
      [] format = "Hosts" -> "0.0.0.0" \o " " \o domain
      [] OTHER -> domain

\* lines 63-65 (and 87-89, 111-113, 135-137, 166-168, 269-271): the loop
\* over sorted(set(domains)), from its i-th element on
RECURSIVE RuleBody(_, _, _)
RuleBody(format, sorted, i) ==
    IF i > Len(sorted) THEN <<>>
    ELSE (IF Strip(sorted[i].v) # "" THEN <<RuleLine(format, Strip(sorted[i].v))>> ELSE <<>>)
            \o RuleBody(format, sorted, i + 1)

\* set(domains) raises on a dict, sorted() on mixed types, domain.strip() on
\* a number
RulesRaise(domains) == \E i \in DOMAIN domains : ~IsStr(domains[i])

\* lines 45-170: the five generate_*_rules, which differ in the comment
\* line and in the syntax of a rule; rules is the list that is joined
generate_rules_text(format, domains, author, updated_utc, domain_count) ==
    IF RulesRaise(domains) THEN [raised |-> TRUE, rules |-> <<>>]
    ELSE [raised |-> FALSE,
          rules |-> build_header("#", author, updated_utc, domain_count)
                        \o <<FormatComment(format), "">>
                        \o RuleBody(format, SortedList({domains[i] : i \in DOMAIN domains}), 1)]
generate_quantumultx_rules(domains, author, updated_utc, domain_count) ==
    generate_rules_text("Quantumult X", domains, author, updated_utc, domain_count)
generate_hosts_rules(domains, author, updated_utc, domain_count) ==
    generate_rules_text("Hosts", domains, author, updated_utc, domain_count)

\* f.write('\n'.join(rules)): a newline follows every line but the last
JoinLines(rules) == [i \in DOMAIN rules |-> [text |-> rules[i], nl |-> i < Len(rules)]]
\* f.write(f'{line}\n') for each line
WriteLines(rules) == [i \in DOMAIN rules |-> [text |-> rules[i], nl |-> TRUE]]

NoFile == [exists |-> FALSE, lines |-> <<>>]

\* One try block of generate_all_rules (lines 201-259 for the five rule
\* formats, 262-276 for the domain list): failing holds the formats whose
\* open() raises.  The domain list is written while it is computed, so a
\* list that makes the loop raise leaves the header in the file.
GenerateFormat(format, domains, author, updated_utc, domain_count, failing) ==
    IF format \in failing THEN [ok |-> FALSE, file |-> NoFile]
    ELSE IF format = "Domain List"
    THEN LET head == WriteLines(build_header("#", author, updated_utc, domain_count) \o <<"">>)
         IN  IF RulesRaise(domains)
             THEN [ok |-> FALSE, file |-> [exists |-> TRUE, lines |-> head]]
             ELSE [ok |-> TRUE,
                   file |-> [exists |-> TRUE,
                             lines |-> head \o WriteLines(RuleBody(format,
                                           SortedList({domains[i] : i \in DOMAIN domains}), 1))]]
    ELSE LET g == generate_rules_text(format, domains, author, updated_utc, domain_count)
         IN  IF g.raised THEN [ok |-> FALSE, file |-> NoFile]
             ELSE [ok |-> TRUE, file |-> [exists |-> TRUE, lines |-> JoinLines(g.rules)]]

\* a generate_all_rules with one try block around all the formats
MutGenerateStopsAtFailure(domains, author, updated_utc, domain_count, failing) ==
    LET reached(k) == \A j \in 1..k :
                         GenerateFormat(FormatOrder[j], domains, author, updated_utc,
                                        domain_count, failing).ok
        index(f) == CHOOSE k \in DOMAIN FormatOrder : FormatOrder[k] = f
    IN  [generated |-> {f \in Formats : reached(index(f))},
         files |-> [f \in Formats |->
                       IF reached(index(f) - 1)
                       THEN GenerateFormat(f, domains, author, updated_utc,
                                           domain_count, failing).file
                       ELSE NoFile]]

\* lines 189-278: six try blocks, one after the other; generated holds the
\* keys of the dict returned, files what each format's file holds
generate_all_rules(domains, author, updated_utc, domain_count, failing) ==
    [generated |-> {f \in Formats :
                       GenerateFormat(f, domains, author, updated_utc,
                                      domain_count, failing).ok},
     files |-> [f \in Formats |->
                   GenerateFormat(f, domains, author, updated_utc,
                                  domain_count, failing).file]]

(***************************************************************************)
(* CryptoHandler.create_profile and parse_plist (crypto_handler.py         *)
(* 238-310 and 102-123): the payload is written with plistlib.dump and     *)
(* read back with plistlib.load.                                           *)
(***************************************************************************)
\* longest domain list handed to create_profile
MaxProfileDomains == 3

\* the strings of those lists: plain ones, a blank one, one ending with a
\* carriage return
ProfileStrings == {"a.com", "b.com", " ", "a.com\r"}
ProfileElems == {Str(s) : s \in ProfileStrings}

\* crypto_handler.py 303: plistlib.dump writes a string as XML text after
\* turning its DOS and Mac line endings ("\r\n", "\r") into "\n"
PlistEscape(s) == IF s = "a.com\r" THEN "a.com\n" ELSE s
\* the <array> written for a list: strings escaped, numbers as they are
PlistDumpList(l) ==
    [i \in DOMAIN l |-> IF IsStr(l[i]) THEN Str(PlistEscape(l[i].v)) ELSE l[i]]

\* no payload: create_profile returned None, no file was written
NoProfile == [ok |-> FALSE, plist |-> IdlePlist]

\* lines 264-310: set(domains) raises on a dict, sorted() on mixed types,
\* open() when the file cannot be written; every exception gives None.
\* plist is the tree plistlib.load reads from the bytes written.
create_profile(domains, writable) ==
    IF \E i \in DOMAIN domains : IsDict(domains[i]) THEN NoProfile
    ELSE IF \E i, j \in DOMAIN domains : domains[i].t # domains[j].t THEN NoProfile
    ELSE IF ~writable THEN NoProfile
    ELSE [ok |-> TRUE,
          plist |-> DnsPlist(PlistDumpList(SortedList({domains[i] : i \in DOMAIN domains})))]

\* lines 112-123: None when the file is missing, else what plistlib.load
\* makes of the bytes
parse_plist(profile) == IF ~profile.ok THEN NoProfile ELSE profile

(***************************************************************************)
(* SpecExtract: extract_domains applied to every bounded plist tree.       *)
(***************************************************************************)
extractVars == <<plist_data, x_pc, x_domains>>
splitVars == <<fullchain, s_exists, s_pc, s_result>>
configVars == <<cert_path, key_path>>
scrapeVars == <<src_i, profiles>>
processVars == <<proc_i, all_domains, processing_results, extracted_all, clean_yield>>
signVars == <<plist_file, server_cert_path, chain_cert_path, sign_log>>
runVars == <<configVars, pc, scrapeVars, processVars, merged_domains, merge_state,
             signVars, files, profile_path, generated_files, run_result,
             pipeline_error>>
roundVars == <<rt_domains, rt_pc, rt_profile, rt_extracted>>
mergeVars == <<m_lists, m_pc, m_out>>
rulesVars == <<r_domains, r_failing, r_pc, r_generated, r_files>>
fetchVars == <<f_src, f_pc, f_attempt, f_responses, f_profiles, f_log>>
auxVars == <<roundVars, mergeVars, rulesVars, fetchVars>>
vars == <<extractVars, splitVars, runVars, blob_seen, run_no, auxVars>>

\* the variables of the other specifications at rest
NoMerged == [raised |-> FALSE, list |-> <<>>]
NoMergeOut == [order |-> <<>>, first |-> NoMerged, swapped |-> NoMerged,
               again |-> NoMerged, twice |-> NoMerged]

RoundIdle ==
    /\ rt_domains = <<>>
    /\ rt_pc = "idle"
    /\ rt_profile = NoProfile
    /\ rt_extracted = <<>>

MergeIdle ==
    /\ m_lists = <<>>
    /\ m_pc = "idle"
    /\ m_out = NoMergeOut

RulesIdle ==
    /\ r_domains = <<>>
    /\ r_failing = {}
    /\ r_pc = "idle"
    /\ r_generated = {}
    /\ r_files = [f \in Formats |-> NoFile]

FetchIdle ==
    /\ f_src = 1
    /\ f_pc = "idle"
    /\ f_attempt = 0
    /\ f_responses = <<>>
    /\ f_profiles = <<>>
    /\ f_log = {}

ExtractIdle ==
    /\ plist_data = IdlePlist
    /\ x_pc = "idle"
    /\ x_domains = <<>>

SplitIdle ==
    /\ fullchain = <<>>
    /\ s_exists = FALSE
    /\ s_pc = "idle"
    /\ s_result = SplitFailed

\* the orchestrator as __init__ leaves it (main.py 47-57, crypto_handler.py
\* 33-36), before run() is called
NoBlob == [read |-> FALSE, complete_blocks |-> 0, has_end |-> FALSE, leaf_signs |-> FALSE]

Constructed ==
    /\ src_i = 1
    /\ profiles = <<>>
    /\ proc_i = 1
    /\ all_domains = {}
    /\ processing_results = {}
    /\ merged_domains = <<>>
    /\ plist_file = "None"
    /\ server_cert_path = "None"
    /\ chain_cert_path = "None"
    /\ files = {}
    /\ profile_path = "None"
    /\ generated_files = {}
    /\ run_result = FALSE
    /\ pipeline_error = "None"
    /\ extracted_all = {}
    /\ clean_yield = FALSE
    /\ merge_state = "not_called"
    /\ sign_log = NoSignLog
    /\ blob_seen = NoBlob

RunIdle ==
    /\ cert_path = "None"
    /\ key_path = "None"
    /\ pc = "idle"
    /\ run_no = 0
    /\ Constructed

InitExtract ==
    /\ plist_data \in Plists(TreeElems, MaxElems, MaxEntries)
    /\ x_pc = "call"
    /\ x_domains = <<>>
    /\ SplitIdle
    /\ RunIdle
    /\ RoundIdle /\ MergeIdle /\ RulesIdle /\ FetchIdle

ExtractDomains ==
    /\ x_pc = "call"
    /\ LET r == extract_domains(plist_data)
       IN  /\ x_pc' = IF r.raised THEN "raised" ELSE "returned"
           /\ x_domains' = r.domains
    /\ UNCHANGED <<plist_data, splitVars, runVars, blob_seen, run_no, auxVars>>

NextExtract == ExtractDomains

SpecExtract == InitExtract /\ [][NextExtract]_vars

(***************************************************************************)
(* Claims about extract_domains (checked under SpecExtract).               *)
(***************************************************************************)
Range(f) == {f[i] : i \in DOMAIN f}

\* The SupplementalMatchDomains lists of a plist that sit under a dict root,
\* a list-valued PayloadContent, a dict entry and a dict DNSSettings.
WellFormedLists(plist) ==
    IF plist.t = "map" /\ plist.PayloadContent.t = "list"
    THEN {e.DNSSettings.SupplementalMatchDomains.items :
            e \in {f \in Range(plist.PayloadContent.items) :
                      /\ f.t = "map"
                      /\ f.DNSSettings.t = "map"
                      /\ f.DNSSettings.SupplementalMatchDomains.t = "list"}}
    ELSE {}

\* Some node of the plist is missing or of the wrong shape.
HasMalformedNode(plist) ==
    \/ plist.t # "map"
    \/ plist.PayloadContent.t # "list"
    \/ \E e \in Range(plist.PayloadContent.items) :
          \/ e.t # "map"
          \/ e.DNSSettings.t # "map"
          \/ e.DNSSettings.SupplementalMatchDomains.t # "list"

\* C9: extract_domains never raises; every element it returns comes from a
\* well-formed SupplementalMatchDomains list, so a missing or wrong-shaped
\* node contributes nothing, and with no well-formed list the result is empty.
C9_ExtractTolerant ==
    /\ x_pc # "raised"
    /\ x_pc = "returned" =>
          /\ \A e \in Range(x_domains) :
                \E l \in WellFormedLists(plist_data) : e \in Range(l)
          /\ \A l \in WellFormedLists(plist_data) : Range(l) \subseteq Range(x_domains)
          /\ (\A l \in WellFormedLists(plist_data) : l = <<>>) => x_domains = <<>>

\* C9 witness: a plist with a malformed node beside a well-formed, non-empty
\* list has been extracted, and only the well-formed list came out.
C9_Witness ==
    /\ x_pc = "returned"
    /\ plist_data.t = "map"
    /\ plist_data.PayloadContent.t = "list"
    /\ Len(plist_data.PayloadContent.items) = 2
    /\ plist_data.PayloadContent.items[1].DNSSettings.t = "str"
    /\ x_domains = <<Str("a.com"), Str(" ")>>

\* C10 (as claimed): the result holds exactly the string elements of the
\* SupplementalMatchDomains lists found, and never a non-string element.
C10_OnlyStringElements ==
    x_pc = "returned" =>
        /\ \A i \in DOMAIN x_domains : IsStr(x_domains[i])
        /\ \A l \in WellFormedLists(plist_data) :
              \A e \in Range(l) : IsStr(e) => e \in Range(x_domains)

(***************************************************************************)
(* SpecSplit: split_certificate_chain applied to every bounded blob.       *)
(***************************************************************************)
InitSplit ==
    /\ fullchain \in Blobs(MaxLines)
    /\ s_exists \in BOOLEAN
    /\ s_exists = FALSE => fullchain = <<>>
    /\ s_pc = "call"
    /\ s_result = SplitFailed
    /\ ExtractIdle
    /\ RunIdle
    /\ RoundIdle /\ MergeIdle /\ RulesIdle /\ FetchIdle

SplitCertificateChain ==
    /\ s_pc = "call"
    /\ s_result' = split_certificate_chain(s_exists, fullchain)
    /\ s_pc' = "returned"
    /\ UNCHANGED <<extractVars, fullchain, s_exists, runVars, blob_seen, run_no, auxVars>>

NextSplit == SplitCertificateChain

SpecSplit == InitSplit /\ [][NextSplit]_vars

(***************************************************************************)
(* Claims about split_certificate_chain (checked under SpecSplit).         *)
(***************************************************************************)
\* A complete block of a blob: a begin-marker line, the next end-marker line
\* after it, and no marker line between the two.
IsCompleteSpan(lines, i, j) ==
    /\ i < j
    /\ lines[i] = BeginLine
    /\ lines[j] = EndLine
    /\ \A k \in (i + 1)..(j - 1) : lines[k] \notin {BeginLine, EndLine}
CompleteSpans(lines) ==
    {sp \in (DOMAIN lines) \X (DOMAIN lines) : IsCompleteSpan(lines, sp[1], sp[2])}
\* the k-th complete block, in file order
NthSpan(lines, k) ==
    CHOOSE sp \in CompleteSpans(lines) :
        Cardinality({o \in CompleteSpans(lines) : o[1] < sp[1]}) = k - 1
SpanBlock(lines, sp) == [m \in 1..(sp[2] - sp[1] + 1) |-> lines[sp[1] + m - 1]]
NthBlock(lines, k) == SpanBlock(lines, NthSpan(lines, k))
RECURSIVE BlocksFrom(_, _, _)
BlocksFrom(lines, k, n) ==
    IF k > n THEN <<>> ELSE NthBlock(lines, k) \o BlocksFrom(lines, k + 1, n)

\* C7 (as claimed): with n complete blocks in the blob, split fails for
\* n = 0, returns the block as leaf and no chain for n = 1, and returns block
\* 1 as leaf and blocks 2..n in file order as the chain for n >= 2.
C7_SplitByBlockCount ==
    (s_pc = "returned" /\ s_exists) =>
        LET n == Cardinality(CompleteSpans(fullchain))
        IN  /\ n = 0 => ~s_result.ok
            /\ n = 1 => /\ s_result.ok
                        /\ s_result.server_cert = NthBlock(fullchain, 1)
                        /\ ~s_result.has_chain
            /\ n >= 2 => /\ s_result.ok
                         /\ s_result.server_cert = NthBlock(fullchain, 1)
                         /\ s_result.has_chain
                         /\ s_result.chain_certs = BlocksFrom(fullchain, 2, n)

\* C8 (as claimed): every block split yields is a complete block of the
\* blob (it starts with a begin marker, ends with the next end marker and
\* holds no line from outside a begin/end pair), and a blob without a
\* complete block makes split fail.
C8_OnlyCompleteBlocks ==
    (s_pc = "returned" /\ s_exists) =>
        /\ \A b \in Range(s_result.cert_blocks) :
              \E sp \in CompleteSpans(fullchain) : b = SpanBlock(fullchain, sp)
        /\ CompleteSpans(fullchain) = {} => ~s_result.ok

(***************************************************************************)
(* SpecRoundTrip: create_profile, then parse_plist and extract_domains on   *)
(* the payload it wrote, for every bounded non-empty list of strings.      *)
(***************************************************************************)
InitRoundTrip ==
    /\ rt_domains \in SeqsUpTo(ProfileElems, MaxProfileDomains) \ {<<>>}
    /\ rt_pc = "create"
    /\ rt_profile = NoProfile
    /\ rt_extracted = <<>>
    /\ ExtractIdle /\ SplitIdle /\ RunIdle
    /\ MergeIdle /\ RulesIdle /\ FetchIdle

\* crypto_handler.py 238-310
RoundTripCreate ==
    /\ rt_pc = "create"
    /\ \E writable \in BOOLEAN :
          LET r == create_profile(rt_domains, writable)
          IN  /\ rt_profile' = r
              /\ rt_pc' = IF r.ok THEN "parse" ELSE "failed"
    /\ UNCHANGED <<rt_domains, rt_extracted, extractVars, splitVars, runVars,
                   blob_seen, run_no, mergeVars, rulesVars, fetchVars>>

\* crypto_handler.py 102-123
RoundTripParse ==
    /\ rt_pc = "parse"
    /\ LET r == parse_plist(rt_profile)
       IN  /\ rt_profile' = r
           /\ rt_pc' = IF r.ok THEN "extract" ELSE "failed"
    /\ UNCHANGED <<rt_domains, rt_extracted, extractVars, splitVars, runVars,
                   blob_seen, run_no, mergeVars, rulesVars, fetchVars>>

\* crypto_handler.py 207-236
RoundTripExtract ==
    /\ rt_pc = "extract"
    /\ rt_extracted' = extract_domains(rt_profile.plist).domains
    /\ rt_pc' = "done"
    /\ UNCHANGED <<rt_domains, rt_profile, extractVars, splitVars, runVars,
                   blob_seen, run_no, mergeVars, rulesVars, fetchVars>>

NextRoundTrip == RoundTripCreate \/ RoundTripParse \/ RoundTripExtract

SpecRoundTrip == InitRoundTrip /\ [][NextRoundTrip]_vars

\* C11 (as claimed): once the payload create_profile built from a non-empty
\* list D is parsed back, extract_domains returns exactly the distinct
\* domains of D, each once: none lost, none added.
C11_RoundTrip ==
    rt_pc = "done" =>
        /\ Range(rt_extracted) = Range(rt_domains)
        /\ Len(rt_extracted) = Cardinality(Range(rt_domains))

(***************************************************************************)
(* SpecMerge: process_profiles and merge_domains over bounded per-source   *)
(* domain lists, in the order given, in every other order, on the merged   *)
(* list again and on the same lists twice.                                 *)
(***************************************************************************)
\* most sources merged
MaxMergeSources == 2

\* the elements of the per-source lists
MergeElems == {Str("a.com"), Str("b.com"), Num("7"), Dict("{}")}

\* the orders in which n sources can be processed
Orders(n) == {f \in [1..n -> 1..n] : \A i, j \in 1..n : i # j => f[i] # f[j]}

InitMerge ==
    /\ m_lists \in SeqsUpTo(SeqsUpTo(MergeElems, MaxDomains), MaxMergeSources)
    /\ m_pc = "call"
    /\ m_out = NoMergeOut
    /\ ExtractIdle /\ SplitIdle /\ RunIdle
    /\ RoundIdle /\ RulesIdle /\ FetchIdle

\* main.py 91-139
MergeSources ==
    /\ m_pc = "call"
    /\ \E order \in Orders(Len(m_lists)) :
          LET first == MergeOf(m_lists)
          IN  m_out' = [order |-> order,
                        first |-> first,
                        swapped |-> MergeOf([i \in DOMAIN m_lists |-> m_lists[order[i]]]),
                        again |-> IF first.raised THEN first ELSE MergeOf(<<first.list>>),
                        twice |-> MergeOf(m_lists \o m_lists)]
    /\ m_pc' = "returned"
    /\ UNCHANGED <<m_lists, extractVars, splitVars, runVars, blob_seen, run_no,
                   roundVars, rulesVars, fetchVars>>

NextMerge == MergeSources

SpecMerge == InitMerge /\ [][NextMerge]_vars

\* C12: processing the per-source domain lists in any order gives the same
\* merged list (or the same failure).
C12_MergeCommutative ==
    m_pc = "returned" => m_out.swapped = m_out.first

\* C12 witness: two sources with different domains were merged in both
\* orders.
C12_Witness ==
    /\ m_pc = "returned"
    /\ m_lists = <<(<<Str("b.com")>>), (<<Str("a.com")>>)>>
    /\ m_out.order = <<2, 1>>
    /\ m_out.first.list = <<Str("a.com"), Str("b.com")>>

\* C13: merging the merged list again, or merging the same lists a second
\* time, gives a list identical to the first result.
C13_MergeIdempotent ==
    m_pc = "returned" =>
        /\ m_out.again = m_out.first
        /\ m_out.twice = m_out.first

\* C13 witness: lists with a repeated domain were merged, and merged again.
C13_Witness ==
    /\ m_pc = "returned"
    /\ m_lists = <<(<<Str("b.com"), Str("a.com")>>), (<<Str("a.com")>>)>>
    /\ m_out.first.list = <<Str("a.com"), Str("b.com")>>
    /\ m_out.again.list = <<Str("a.com"), Str("b.com")>>
    /\ m_out.twice.list = <<Str("a.com"), Str("b.com")>>

(***************************************************************************)
(* SpecRules: RuleFileGenerator.generate_all_rules on every bounded merged *)
(* list, with every set of formats whose file cannot be written.           *)
(***************************************************************************)
\* longest merged list handed to generate_all_rules
MaxRuleDomains == 3

\* the domains of those lists: a blank one, one with a leading blank, plain
\* ones
RuleStrings == {" ", " a.com", "a.com", "a.example.com", "b.example.com", "c.example.com"}
\* the lists merge_domains can return: sorted, without repeats, non-empty,
\* of strings or (see C10) of numbers
RuleLists ==
    {SortedList(S) : S \in {T \in SUBSET {Str(d) : d \in RuleStrings} :
                               Cardinality(T) \in 1..MaxRuleDomains}}
        \cup {<<Num("7")>>}

InitRules ==
    /\ r_domains \in RuleLists
    /\ r_failing \in SUBSET Formats
    /\ r_pc = "call"
    /\ r_generated = {}
    /\ r_files = [f \in Formats |-> NoFile]
    /\ ExtractIdle /\ SplitIdle /\ RunIdle
    /\ RoundIdle /\ MergeIdle /\ FetchIdle

\* rule_converter.py 189-278, called as main.py 262-270 calls it
GenerateAllRules ==
    /\ r_pc = "call"
    /\ LET r == generate_all_rules(r_domains, Author, UpdatedUtc, Len(r_domains), r_failing)
       IN  /\ r_generated' = r.generated
           /\ r_files' = r.files
    /\ r_pc' = "returned"
    /\ UNCHANGED <<r_domains, r_failing, extractVars, splitVars, runVars, blob_seen,
                   run_no, roundVars, mergeVars, fetchVars>>

NextRules == GenerateAllRules

SpecRules == InitRules /\ [][NextRules]_vars

(***************************************************************************)
(* Claims about the rule documents (checked under SpecRules).              *)
(***************************************************************************)
\* the texts of the lines of a file
Texts(file) == [i \in DOMAIN file.lines |-> file.lines[i].text]
\* the lines from the i-th on
From(t, i) == SubSeq(t, i, Len(t))
\* the five header lines a document must start with
ExpectedHeader ==
    <<"# Project: iOS-AntiRevoke-DNS-Rules",
      "# Author: RzMY",
      "# Updated: " \o UpdatedUtc,
      "# Domain Count: " \o ToString(Len(r_domains)),
      "# License: MIT License">>
\* a line that renders some domain of the list in the format's syntax
IsDomainLine(format, line) ==
    \E d \in Range(r_domains) :
        line = CASE format = "Quantumult X" -> "host, " \o Strip(d.v) \o ", reject"
                 [] format = "Hosts" -> "0.0.0.0 " \o Strip(d.v)
                 [] format = "Domain List" -> Strip(d.v)
                 [] OTHER -> "DOMAIN," \o Strip(d.v) \o ",REJECT"
ExampleList == <<Str("a.example.com"), Str("b.example.com"), Str("c.example.com")>>
ExampleHosts == <<"0.0.0.0 a.example.com", "0.0.0.0 b.example.com", "0.0.0.0 c.example.com">>

\* C14: whatever formats fail, every other format is still generated: the
\* dict returned holds exactly the formats whose generation and write
\* succeeded, each with its file, and a format that failed has no complete
\* file.
C14_FormatsIndependent ==
    r_pc = "returned" =>
        /\ r_generated = {f \in Formats : f \notin r_failing /\ ~RulesRaise(r_domains)}
        /\ \A f \in r_generated : r_files[f].exists /\ Len(r_files[f].lines) >= 6
        /\ \A f \in Formats \ r_generated :
              r_files[f].exists => (f = "Domain List" /\ Len(r_files[f].lines) = 6)

\* C14 witness: the writes of two formats failed and the four others, one
\* of them after the failures, are in the dict returned.
C14_Witness ==
    /\ r_pc = "returned"
    /\ r_failing = {"Quantumult X", "Loon"}
    /\ r_generated = {"Surge", "Shadowrocket", "Hosts", "Domain List"}
    /\ r_files["Hosts"].exists

\* C15 (as claimed): every rule document is the 5 header lines, one blank
\* line, then domain lines only; for the list [a.example.com, b.example.com,
\* c.example.com] the hosts document's lines after header and blank line are
\* the three 0.0.0.0 lines.
C15_FiveLinesThenBlank ==
    r_pc = "returned" =>
        \A f \in r_generated :
            LET t == Texts(r_files[f])
            IN  /\ Len(t) >= 6
                /\ SubSeq(t, 1, 5) = ExpectedHeader
                /\ t[6] = ""
                /\ \A i \in 7..Len(t) : IsDomainLine(f, t[i])
                /\ (f = "Hosts" /\ r_domains = ExampleList) => From(t, 7) = ExampleHosts

\* C15 (amended): every rule document is the 5 header lines, then (in every
\* format but the domain list) one comment line naming the format, then one
\* blank line, then domain lines only; for the list [a.example.com,
\* b.example.com, c.example.com] the hosts document's lines after the blank
\* line are the three 0.0.0.0 lines.
C15_DocumentLayout ==
    r_pc = "returned" =>
        \A f \in r_generated :
            LET t == Texts(r_files[f])
                blank == IF f = "Domain List" THEN 6 ELSE 7
            IN  /\ Len(t) >= blank
                /\ SubSeq(t, 1, 5) = ExpectedHeader
                /\ f # "Domain List" =>
                      t[6] \in {"# Format: host, domain, action",
                                "# Format: DOMAIN,domain,action",
                                "# Format: IP domain"}
                /\ t[blank] = ""
                /\ \A i \in (blank + 1)..Len(t) : IsDomainLine(f, t[i])
                /\ (f = "Hosts" /\ r_domains = ExampleList) => From(t, 8) = ExampleHosts

\* C15 witness: the hosts document of the three example domains was written.
C15_Witness ==
    /\ r_pc = "returned"
    /\ r_domains = ExampleList
    /\ "Hosts" \in r_generated
    /\ Len(r_files["Hosts"].lines) = 10
    /\ r_files["Hosts"].lines[10].text = "0.0.0.0 c.example.com"

\* C18 (as claimed): in every rule file every line, the last one included,
\* is followed by a newline.
C18_NewlineTerminated ==
    r_pc = "returned" =>
        \A f \in Formats :
            \A i \in DOMAIN r_files[f].lines :
                \/ r_files[f].lines[i].nl
                \/ r_files[f].lines[i].text = ""

\* C20 (as claimed): the body of every rule document holds, in the merged
\* list's order, one line for each domain that is not empty once trimmed,
\* in the format's syntax, nothing for the others, and no line twice.
C20_OneLinePerDomain ==
    r_pc = "returned" =>
        \A f \in r_generated :
            LET body == From(Texts(r_files[f]), IF f = "Domain List" THEN 7 ELSE 8)
                kept == SelectSeq(r_domains, LAMBDA d : Strip(d.v) # "")
            IN  /\ Len(body) = Len(kept)
                /\ \A i \in DOMAIN body :
                      body[i] = CASE f = "Quantumult X" -> "host, " \o Strip(kept[i].v) \o ", reject"
                                  [] f = "Hosts" -> "0.0.0.0 " \o Strip(kept[i].v)
                                  [] f = "Domain List" -> Strip(kept[i].v)
                                  [] OTHER -> "DOMAIN," \o Strip(kept[i].v) \o ",REJECT"
                /\ \A i, j \in DOMAIN body : i # j => body[i] # body[j]

\* C22 (as claimed): in every rule document generated, the domain count
\* stated in the header (its fourth line) is the number of domain lines in
\* the document's body (the lines after the blank line).
C22_HeaderCountIsBodyLines ==
    r_pc = "returned" =>
        \A f \in r_generated :
            LET t == Texts(r_files[f])
                body == From(t, IF f = "Domain List" THEN 7 ELSE 8)
            IN  /\ Len(t) >= 5
                /\ t[4] = "# Domain Count: " \o ToString(Len(body))

(***************************************************************************)
(* Spec: one call of AntiRevokeOrchestrator.run (main.py 234-286).         *)
(***************************************************************************)
Init ==
    /\ cert_path \in {"None", CertFile}
    /\ key_path \in {"None", KeyFile}
    /\ pc = "scrape_sources"
    /\ run_no = 1
    /\ Constructed
    /\ ExtractIdle
    /\ SplitIdle
    /\ RoundIdle /\ MergeIdle /\ RulesIdle /\ FetchIdle

\* run()'s `return False` (lines 252, 258) and its except clause (284-286)
ReturnFalse(error) ==
    /\ pc' = "done"
    /\ run_result' = FALSE
    /\ pipeline_error' = error

\* scraper.py 122-148: one pass of the loop over the sources
ScrapeSource ==
    /\ pc = "scrape_sources"
    /\ src_i <= Len(SourceNames)
    /\ \E scraped \in {fetch_page(page).ok /\ link_found /\ download_profile(dl).ok :
                            page \in Attempts, link_found \in BOOLEAN, dl \in Attempts} :
          IF scraped
          THEN \E content \in ProfileContents :
                  profiles' = Append(profiles, [name |-> SourceNames[src_i],
                                                content |-> content])
          ELSE UNCHANGED profiles
    /\ src_i' = src_i + 1
    /\ UNCHANGED <<auxVars, run_no, extractVars, splitVars, configVars, pc, processVars, merged_domains,
                   merge_state, signVars, files, profile_path, generated_files,
                   run_result, pipeline_error, blob_seen>>

\* scraper.py 150 and main.py 249-252
ScrapeDone ==
    /\ pc = "scrape_sources"
    /\ src_i > Len(SourceNames)
    /\ IF profiles = <<>>
       THEN ReturnFalse("None")
       ELSE pc' = "process_profiles" /\ UNCHANGED <<run_result, pipeline_error>>
    /\ UNCHANGED <<auxVars, run_no, extractVars, splitVars, configVars, scrapeVars, processVars,
                   merged_domains, merge_state, signVars, files, profile_path,
                   generated_files, blob_seen>>

\* main.py 91-123: one pass of the loop over the profiles
ProcessProfile ==
    /\ pc = "process_profiles"
    /\ proc_i <= Len(profiles)
    /\ LET name == profiles[proc_i].name
           content == profiles[proc_i].content
           domains == extract_domains(content.plist).domains
           upd == SetUpdate(all_domains, domains, 1)
       IN  IF ~content.cms \/ content.parse # "ok"
           THEN \* lines 102-110: continue
                UNCHANGED <<all_domains, processing_results, extracted_all, clean_yield>>
           ELSE /\ all_domains' = upd.set
                /\ extracted_all' = extracted_all \cup Range(domains)
                /\ clean_yield' = (\/ clean_yield
                                   \/ domains # <<>> /\ \A e \in Range(domains) : IsStr(e))
                /\ processing_results' =
                      IF upd.raised
                      THEN processing_results    \* lines 121-123
                      ELSE {r \in processing_results : r.name # name}
                               \cup {[name |-> name, domains_count |-> Len(domains)]}
    /\ proc_i' = proc_i + 1
    /\ UNCHANGED <<auxVars, run_no, extractVars, splitVars, configVars, pc, scrapeVars, merged_domains,
                   merge_state, signVars, files, profile_path, generated_files,
                   run_result, pipeline_error, blob_seen>>

\* main.py 255-258; the local `profiles` is dead from here on
ProcessDone ==
    /\ pc = "process_profiles"
    /\ proc_i > Len(profiles)
    /\ profiles' = <<>>
    /\ IF all_domains = {}
       THEN ReturnFalse("None")
       ELSE pc' = "merge_domains" /\ UNCHANGED <<run_result, pipeline_error>>
    /\ UNCHANGED <<auxVars, run_no, extractVars, splitVars, configVars, src_i, processVars,
                   merged_domains, merge_state, signVars, files, profile_path,
                   generated_files, blob_seen>>

\* main.py 261 and 125-139
MergeDomains ==
    /\ pc = "merge_domains"
    /\ LET m == merge_domains(all_domains)
       IN  IF m.raised
           THEN /\ merge_state' = "raised"
                /\ ReturnFalse("merge_domains")
                /\ UNCHANGED merged_domains
           ELSE /\ merge_state' = "returned"
                /\ merged_domains' = m.list
                /\ pc' = "create_profile"
                /\ UNCHANGED <<run_result, pipeline_error>>
    /\ UNCHANGED <<auxVars, run_no, extractVars, splitVars, configVars, scrapeVars, processVars,
                   signVars, files, profile_path, generated_files, blob_seen>>

\* main.py 156-167 and crypto_handler.py 259-310: create_profile writes the
\* unsigned plist, or fails and generate_profile returns None
CreateProfile ==
    /\ pc = "create_profile"
    /\ \E created \in BOOLEAN :
          IF created
          THEN /\ plist_file' = TmpPlist
               /\ files' = files \cup {TmpPlist}
               /\ pc' = IF cert_path # "None" /\ key_path # "None"
                        THEN "sign_profile" ELSE "save_unsigned"
          ELSE /\ pc' = "generate_rules"
               /\ UNCHANGED <<plist_file, files>>
    /\ UNCHANGED <<auxVars, run_no, extractVars, splitVars, configVars, scrapeVars, processVars,
                   merged_domains, merge_state, server_cert_path, chain_cert_path,
                   sign_log, profile_path, generated_files, run_result,
                   pipeline_error, blob_seen>>

\* main.py 168-176: the call of sign_profile.  The environment decides
\* whether the certificate and the key exist, what the certificate file
\* holds and what openssl does.
SignProfileWith(cert_exists, key_exists, blob, openssl) ==
    LET r == sign_profile(cert_path, key_path, server_cert_path, chain_cert_path,
                          files, plist_file, cert_exists, key_exists, blob, openssl)
    IN  /\ server_cert_path' = r.server_cert_path
        /\ chain_cert_path' = r.chain_cert_path
        /\ files' = r.files
        /\ sign_log' = r.log
        /\ blob_seen' = IF r.log.guard = "passed"
                        THEN [read |-> TRUE,
                              complete_blocks |-> Cardinality(CompleteSpans(blob)),
                              has_end |-> \E i \in DOMAIN blob : blob[i] = EndLine,
                              \* the file named after -signer holds exactly
                              \* the first complete block of the blob
                              leaf_signs |->
                                  LET sp == split_certificate_chain(TRUE, blob)
                                  IN  /\ CompleteSpans(blob) # {}
                                      /\ sp.ok
                                      /\ r.log.signer = TmpServer
                                      /\ sp.server_cert = NthBlock(blob, 1)]
                        ELSE NoBlob
        /\ IF r.ret # "None"
           THEN profile_path' = r.ret /\ pc' = "generate_rules"
           ELSE UNCHANGED profile_path /\ pc' = "save_unsigned"

SignProfile ==
    /\ pc = "sign_profile"
    /\ \E cert_exists \in BOOLEAN, key_exists \in BOOLEAN :
          IF cert_exists /\ key_exists
          THEN \E blob \in SignBlobs, openssl \in OpensslOutcomes :
                  SignProfileWith(cert_exists, key_exists, blob, openssl)
          ELSE SignProfileWith(cert_exists, key_exists, <<>>, "OSError")
    /\ UNCHANGED <<auxVars, run_no, extractVars, splitVars, configVars, scrapeVars, processVars,
                   merged_domains, merge_state, plist_file, generated_files,
                   run_result, pipeline_error>>

\* a fallback that returns without saving the unsigned plist
MutSaveUnsignedSkipped ==
    /\ pc = "save_unsigned"
    /\ pc' = "generate_rules"
    /\ UNCHANGED <<auxVars, run_no, extractVars, splitVars, configVars, scrapeVars, processVars,
                   merged_domains, merge_state, signVars, files, profile_path,
                   generated_files, run_result, pipeline_error, blob_seen>>

\* main.py 180-185: shutil.copy of the unsigned plist; when the copy raises,
\* the exception leaves generate_profile and run() catches it
SaveUnsigned ==
    /\ pc = "save_unsigned"
    /\ \E copied \in BOOLEAN :
          IF copied
          THEN /\ files' = files \cup {UnsignedOut}
               /\ profile_path' = UnsignedOut
               /\ pc' = "generate_rules"
               /\ UNCHANGED <<run_result, pipeline_error>>
          ELSE /\ ReturnFalse("generate_profile")
               /\ UNCHANGED <<files, profile_path>>
    /\ UNCHANGED <<auxVars, run_no, extractVars, splitVars, configVars, scrapeVars, processVars,
                   merged_domains, merge_state, signVars, generated_files, blob_seen>>

\* main.py 270 and 187-206
GenerateRules ==
    /\ pc = "generate_rules"
    /\ \E failing \in {F \in SUBSET Formats : Cardinality(F) <= MaxWriteFailures} :
          generated_files' = generate_all_rules(merged_domains, Author, UpdatedUtc,
                                                Len(merged_domains), failing).generated
    /\ pc' = "generate_metadata"
    /\ UNCHANGED <<auxVars, run_no, extractVars, splitVars, configVars, scrapeVars, processVars,
                   merged_domains, merge_state, signVars, files, profile_path,
                   run_result, pipeline_error, blob_seen>>

\* main.py 273-286 and 208-232: the metadata file is written and run()
\* returns True, or the write raises and run() returns False
GenerateMetadata ==
    /\ pc = "generate_metadata"
    /\ \E written \in BOOLEAN :
          IF written
          THEN /\ files' = files \cup {MetadataFile}
               /\ pc' = "done"
               /\ run_result' = TRUE
               /\ UNCHANGED pipeline_error
          ELSE /\ ReturnFalse("generate_metadata")
               /\ UNCHANGED files
    /\ UNCHANGED <<auxVars, run_no, extractVars, splitVars, configVars, scrapeVars, processVars,
                   merged_domains, merge_state, signVars, profile_path,
                   generated_files, blob_seen>>

Next ==
    \/ ScrapeSource
    \/ ScrapeDone
    \/ ProcessProfile
    \/ ProcessDone
    \/ MergeDomains
    \/ CreateProfile
    \/ SignProfile
    \/ SaveUnsigned
    \/ GenerateRules
    \/ GenerateMetadata

Spec == Init /\ [][Next]_vars

(***************************************************************************)
(* Claims about the run (checked under Spec).                              *)
(***************************************************************************)
\* a string that is empty once stripped
IsBlank(e) == IsStr(e) /\ e.v \in {"", " "}

\* C1 (as claimed): once process_profiles has handled the sources,
\* merge_domains returns a list holding exactly the union of what was
\* extracted from every source, without repeats, in strictly ascending order.
C1_MergedIsSortedUnion ==
    merge_state # "not_called" =>
        /\ merge_state = "returned"
        /\ Range(merged_domains) = extracted_all
        /\ \A i, j \in DOMAIN merged_domains :
              i < j => Less(merged_domains[i], merged_domains[j])

\* C2 (as claimed): the merged list never holds an empty or whitespace-only
\* entry, whatever the sources held.
C2_NoBlankEntries ==
    merge_state = "returned" =>
        \A i \in DOMAIN merged_domains : ~IsBlank(merged_domains[i])

\* C3 (as claimed): when some source yielded at least one domain, the run
\* succeeds however the other sources failed (the output directory being
\* writable).
C3_SourceFailuresIsolated ==
    (/\ pc = "done"
     /\ clean_yield
     /\ pipeline_error \notin {"generate_profile", "generate_metadata"})
        => run_result = TRUE

\* signing was due (the unsigned plist exists) and gave no signed profile:
\* certificate or key not configured, or sign_profile returned None
SigningFailed ==
    /\ plist_file # "None"
    /\ pc \in {"generate_rules", "generate_metadata", "done"}
    /\ \/ cert_path = "None"
       \/ key_path = "None"
       \/ sign_log.called /\ sign_log.ret = "None"

C5_TempCertsRemoved ==
    sign_log.called => TmpServer \notin files /\ TmpChain \notin files

\* C6 (as claimed): with zero certificate blocks in the blob the sign
\* primitive is never invoked and the unsigned payload is written instead.
C6_ZeroBlocksAbortSigning ==
    (blob_seen.read /\ blob_seen.complete_blocks = 0) =>
        /\ ~sign_log.invoked
        /\ sign_log.ret = "None"

\* C6 (amended): with zero certificate blocks in the blob signing is not
\* aborted: the sign primitive is still invoked (with the original
\* certificate file as signer and no additional certificates when the blob
\* holds no end-marker line), and the unsigned payload is written only if
\* that invocation gives no signed file.
C6_ZeroBlocksStillSign ==
    (blob_seen.read /\ blob_seen.complete_blocks = 0) =>
        /\ sign_log.invoked
        /\ sign_log.inkey = key_path
        /\ ~blob_seen.has_end =>
              /\ sign_log.signer = cert_path
              /\ sign_log.certfile = "None"
        /\ sign_log.ret # "None" => profile_path = SignedOut /\ UnsignedOut \notin files
        /\ UnsignedOut \in files => sign_log.ret = "None"

\* C6 witness: a blob without any certificate block was read, the original
\* certificate file was handed to the sign primitive, and the run ended with
\* the signed profile.
C6_Witness ==
    /\ pc = "done"
    /\ blob_seen.read
    /\ blob_seen.complete_blocks = 0
    /\ ~blob_seen.has_end
    /\ sign_log.invoked
    /\ sign_log.signer = CertFile
    /\ profile_path = SignedOut
    /\ run_result = TRUE

\* main.py 316: the status main() returns
ExitStatus == IF run_result THEN 0 ELSE 1

\* C16 (as claimed): run returns success exactly when some source yielded a
\* domain and the metadata file was written, and the exit status is 0
\* exactly when run returns success.
C16_SuccessIffDomainAndMetadata ==
    pc = "done" =>
        /\ run_result = TRUE <=>
              /\ \E e \in extracted_all : IsStr(e)
              /\ MetadataFile \in files
        /\ ExitStatus = 0 <=> run_result = TRUE

\* C21 (as claimed): whenever sign_profile invokes the sign primitive, the
\* additional certificates (-certfile) are passed if and only if the blob
\* held more than one certificate block, the signer is the first (leaf)
\* block of the blob, and the key is the configured private key.
C21_ChainIffSeveralBlocks ==
    (blob_seen.read /\ sign_log.invoked) =>
        /\ sign_log.certfile # "None" <=> blob_seen.complete_blocks > 1
        /\ blob_seen.leaf_signs
        /\ sign_log.inkey = key_path

(***************************************************************************)
(* SpecRerun: run() called again on the same orchestrator, one built       *)
(* without certificate and key.                                            *)
(***************************************************************************)
\* most calls of run() on one orchestrator
MaxRuns == 2

InitRerun ==
    /\ cert_path = "None"
    /\ key_path = "None"
    /\ pc = "scrape_sources"
    /\ run_no = 1
    /\ Constructed
    /\ ExtractIdle
    /\ SplitIdle
    /\ RoundIdle /\ MergeIdle /\ RulesIdle /\ FetchIdle

\* main.py 234-249: run() is entered again.  Its locals start afresh;
\* self.all_domains and self.processing_results, set in __init__ only
\* (56-57), and the files on disk stay as the last run left them.
RunAgain ==
    /\ pc = "done"
    /\ run_no < MaxRuns
    /\ run_no' = run_no + 1
    /\ pc' = "scrape_sources"
    /\ src_i' = 1
    /\ profiles' = <<>>
    /\ proc_i' = 1
    /\ merged_domains' = <<>>
    /\ plist_file' = "None"
    /\ profile_path' = "None"
    /\ generated_files' = {}
    /\ run_result' = FALSE
    /\ pipeline_error' = "None"
    /\ extracted_all' = {}
    /\ clean_yield' = FALSE
    /\ merge_state' = "not_called"
    /\ sign_log' = NoSignLog
    /\ blob_seen' = NoBlob
    /\ UNCHANGED <<auxVars, extractVars, splitVars, configVars, all_domains,
                   processing_results, server_cert_path, chain_cert_path, files>>

NextRerun ==
    \/ ScrapeSource
    \/ ScrapeDone
    \/ ProcessProfile
    \/ ProcessDone
    \/ MergeDomains
    \/ CreateProfile
    \/ SaveUnsigned
    \/ GenerateRules
    \/ GenerateMetadata
    \/ RunAgain

SpecRerun == InitRerun /\ [][NextRerun]_vars

\* C17 (as claimed): the merged list of the latest run holds only what was
\* extracted in that run, and once its process_profiles loop has ended the
\* per-source statistics hold only sources processed in that run.
C17_RunStartsFromScratch ==
    /\ merge_state = "returned" => Range(merged_domains) \subseteq extracted_all
    /\ (pc = "process_profiles" /\ proc_i > Len(profiles)) =>
          \A r \in processing_results :
              \E i \in DOMAIN profiles : profiles[i].name = r.name

(***************************************************************************)
(* SpecFetch: ProfileScraper.scrape_sources (scraper.py 110-150), one      *)
(* request of _fetch_page or download_profile at a time.  The loops are    *)
(* fair: a request ends, with a response or with an exception.             *)
(***************************************************************************)
\* what session.get and raise_for_status give: a RequestException, or a
\* response whose body is empty or not
Responses == {"error", "empty", "content"}

InitFetch ==
    /\ f_src = 1
    /\ f_pc = "fetch_page"
    /\ f_attempt = 0
    /\ f_responses = <<>>
    /\ f_profiles = <<>>
    /\ f_log = {}
    /\ ExtractIdle /\ SplitIdle /\ RunIdle
    /\ RoundIdle /\ MergeIdle /\ RulesIdle

\* scraper.py 122 and 150: the loop goes on with the next source, or
\* scrape_sources returns
NextSource ==
    /\ f_src' = f_src + 1
    /\ f_attempt' = 0
    /\ f_responses' = <<>>
    /\ f_pc' = IF f_src + 1 > Len(SourceNames) THEN "done" ELSE "fetch_page"

\* a retry loop that ended: the requests it made and whether it returned a
\* response
LogEntry(call, responses, ok) ==
    [src |-> f_src, call |-> call, responses |-> responses, ok |-> ok]

\* a _fetch_page that gives up at the first failed request
MutFetchPageGivesUpAtFirstFailure ==
    /\ f_pc = "fetch_page"
    /\ f_attempt < max_retries
    /\ \E response \in Responses, link_found \in BOOLEAN :
          LET responses == Append(f_responses, response # "error")
          IN  IF response # "error"
              THEN /\ f_log' = f_log \cup {LogEntry("fetch_page", responses, TRUE)}
                   /\ IF response = "content" /\ link_found
                      THEN /\ f_pc' = "download_profile"
                           /\ f_attempt' = 0
                           /\ f_responses' = <<>>
                           /\ UNCHANGED f_src
                      ELSE NextSource
              ELSE /\ f_log' = f_log \cup {LogEntry("fetch_page", responses, FALSE)}
                   /\ NextSource
    /\ UNCHANGED <<f_profiles, extractVars, splitVars, runVars, blob_seen, run_no,
                   roundVars, mergeVars, rulesVars>>

\* scraper.py 49-60 (one pass of _fetch_page's loop) and, when the loop
\* ends, 132-140: the source is skipped unless a page came and the XPath
\* gave a link
FetchPageAttempt ==
    /\ f_pc = "fetch_page"
    /\ f_attempt < max_retries
    /\ \E response \in Responses, link_found \in BOOLEAN :
          LET responses == Append(f_responses, response # "error")
          IN  IF response # "error"
              THEN \* line 54: return response.text
                   /\ f_log' = f_log \cup {LogEntry("fetch_page", responses, TRUE)}
                   /\ IF response = "content" /\ link_found
                      THEN /\ f_pc' = "download_profile"
                           /\ f_attempt' = 0
                           /\ f_responses' = <<>>
                           /\ UNCHANGED f_src
                      ELSE NextSource
              ELSE IF f_attempt = max_retries - 1
              THEN \* lines 57-59: return None
                   /\ f_log' = f_log \cup {LogEntry("fetch_page", responses, FALSE)}
                   /\ NextSource
              ELSE /\ f_attempt' = f_attempt + 1
                   /\ f_responses' = responses
                   /\ UNCHANGED <<f_src, f_pc, f_log>>
    /\ UNCHANGED <<f_profiles, extractVars, splitVars, runVars, blob_seen, run_no,
                   roundVars, mergeVars, rulesVars>>

\* scraper.py 97-108 (one pass of download_profile's loop) and, when the
\* loop ends, 143-148: the content is stored unless it is missing or empty
DownloadProfileAttempt ==
    /\ f_pc = "download_profile"
    /\ f_attempt < max_retries
    /\ \E response \in Responses :
          LET responses == Append(f_responses, response # "error")
          IN  IF response # "error"
              THEN \* line 102: return response.content
                   /\ f_log' = f_log \cup {LogEntry("download_profile", responses, TRUE)}
                   /\ f_profiles' = IF response = "content"
                                    THEN Append(f_profiles, SourceNames[f_src])
                                    ELSE f_profiles
                   /\ NextSource
              ELSE IF f_attempt = max_retries - 1
              THEN \* lines 105-107: return None
                   /\ f_log' = f_log \cup {LogEntry("download_profile", responses, FALSE)}
                   /\ NextSource
                   /\ UNCHANGED f_profiles
              ELSE /\ f_attempt' = f_attempt + 1
                   /\ f_responses' = responses
                   /\ UNCHANGED <<f_src, f_pc, f_log, f_profiles>>
    /\ UNCHANGED <<extractVars, splitVars, runVars, blob_seen, run_no,
                   roundVars, mergeVars, rulesVars>>

NextFetch == FetchPageAttempt \/ DownloadProfileAttempt

SpecFetch == InitFetch /\ [][NextFetch]_vars /\ WF_vars(NextFetch)

\* The safety part of C19: a running loop has made fewer than max_retries
\* requests, all failed; a loop that ended made at most max_retries
\* requests, its last one the only success if it returned a response, and
\* exactly max_retries failed ones if it did not; every source is fetched
\* whatever happened to the sources before it, and a source is stored only
\* after a download that succeeded.
FetchSafe ==
    /\ Len(f_responses) = f_attempt
    /\ f_attempt < max_retries
    /\ \A i \in DOMAIN f_responses : ~f_responses[i]
    /\ \A l \in f_log :
          /\ Len(l.responses) \in 1..max_retries
          /\ l.ok => /\ l.responses[Len(l.responses)]
                     /\ \A i \in 1..(Len(l.responses) - 1) : ~l.responses[i]
          /\ ~l.ok => /\ Len(l.responses) = max_retries
                      /\ \A i \in DOMAIN l.responses : ~l.responses[i]
          /\ [ok |-> l.ok, tries |-> Len(l.responses)]
                = RetryLoop(l.responses \o [i \in 1..max_retries |-> FALSE], 0)
    /\ \A k \in DOMAIN SourceNames :
          (k < f_src \/ f_pc = "done") =>
              \E l \in f_log : l.src = k /\ l.call = "fetch_page"
    /\ \A i \in DOMAIN f_profiles :
          \E l \in f_log : /\ SourceNames[l.src] = f_profiles[i]
                           /\ l.call = "download_profile"
                           /\ l.ok

\* C19: every fetch makes at most max_retries requests, stops at the first
\* that succeeds, fails only after max_retries failed requests, a failed
\* source is skipped and the others are still scraped, and scrape_sources
\* always ends.
C19_BoundedRetries == [](FetchSafe) /\ <>(f_pc = "done")

\* C19 witness: the first source's page failed max_retries times, the
\* second source was still scraped and stored after a retry.
C19_Witness ==
    /\ f_pc = "done"
    /\ [src |-> 1, call |-> "fetch_page", responses |-> <<FALSE, FALSE, FALSE>>,
        ok |-> FALSE] \in f_log
    /\ [src |-> 2, call |-> "download_profile", responses |-> <<FALSE, TRUE>>,
        ok |-> TRUE] \in f_log
    /\ f_profiles = <<"applejr">>

====
